---- MODULE Spec2Model ----
(***************************************************************************)
(* A scope owns a suspended computation.  enter resumes the computation    *)
(* until it freezes a borrow of its local data (FrozenFuture::poll stores  *)
(* the pointer in the shared State cell and reports Pending), then runs    *)
(* the caller's inspector on the pointer found in the cell.                *)
(***************************************************************************)
EXTENDS Integers, Sequences, FiniteSets, TLC

\* ---------------------------------------------------------------- bounds
\* enter calls made on one scope
MaxEnters == 3
\* an inspector may write any of 0..MaxWrite through the frozen borrow
MaxWrite == 1
\* polls and drops a hand-polling computation performs outside .await
MaxManual == 2
\* enter calls made on two scopes together
MaxEntersTwo == 2

\* ---------------------------------------------------------------- values
Scopes == {"A", "B"}

\* The computations of the test module, and one that polls by hand.
Programs == {"produce_output", "panicking_future",
             "panicking_future_after_once", "hand_polled"}

\* std::ptr::null_mut(), the value of an empty State cell
NULL == [owner |-> 0, data |-> "null"]

\* Option::None in FrozenFuture::mut_ref
None == [owner |-> 0, data |-> "None"]

\* The address of the local x of computation s.  owner is a ghost field: the
\* suspension object the pointer was borrowed for.
Ptr(id, s) == [owner |-> id, data |-> s]

\* No suspension object is alive in the computation.
NoFut == [id |-> 0, mut_ref |-> None, state |-> "none", results |-> <<>>]

\* No value was handed to an inspector / returned by enter.
NoVal == 0 - 1

\* The inspectors a caller may pass to enter: one that reads the borrow and
\* returns it, one that writes through the borrow, one that panics.
Inspectors ==
    {[kind |-> "read", val |-> 0], [kind |-> "panic", val |-> 0]}
    \cup {[kind |-> "write", val |-> v] : v \in 0..MaxWrite}

VARIABLES
    liveness,   \* scope -> "Uninitialized" | "Alive" | "Poisoned"
    program,    \* scope -> the computation given to BoxScope::new
    slot,       \* scope -> State.0: NULL or the frozen pointer
    x,          \* scope -> the computation's local counter
    cpc,        \* scope -> where the computation stands
    fut,        \* scope -> the computation's live FrozenFuture, or NoFut
    nextId,     \* ghost: identity of the next FrozenFuture
    manual,     \* scope -> polls and drops done by hand so far
    epc,        \* scope -> "idle" | "resume" | "inspect": position in enter
    cur,        \* scope -> the inspector of the enter call in progress
    hist,       \* scope -> the finished enter calls, in order
    polled,     \* ghost: the most recent call of FrozenFuture::poll
    entered,    \* ghost: scope -> enter calls made so far
    handed      \* ghost: scope -> the pointers given to inspectors, in order

vars == <<liveness, program, slot, x, cpc, fut, nextId, manual, epc, cur,
          hist, polled, entered, handed>>

NoPoll == [scope |-> "none", id |-> 0, prior |-> <<>>, res |-> "none",
           before |-> NULL, after |-> NULL]

\* ------------------------------------------------------------ lib.rs code

\* impl Default for State: an empty cell.
StateDefault == NULL

\* A freeze whose suspension objects all point at one and the same cell.
freezeSharedState(capsuleState, t, id) ==
    [id |-> id, mut_ref |-> t, state |-> "A", results |-> <<>>]

\* TimeCapsule::freeze: the suspension object holds Some(t) and the capsule's
\* pointer to the State cell.  id and results are ghost fields.
freeze(capsuleState, t, id) ==
    [id |-> id, mut_ref |-> t, state |-> capsuleState, results |-> <<>>]

\* A poll that tells its first call from its second by its own mut_ref
\* instead of by the cell.
pollByOwnState(f, cell) ==
    IF f.mut_ref # None
    THEN [fut |-> [f EXCEPT !.mut_ref = None], slot |-> f.mut_ref,
          res |-> "Pending"]
    ELSE [fut |-> f, slot |-> NULL, res |-> "Ready"]

\* A poll that copies the borrow out of mut_ref instead of taking it.
pollKeepsBorrow(f, cell) ==
    IF cell = NULL
    THEN IF f.mut_ref = None
         THEN [fut |-> f, slot |-> cell, res |-> "panic"]
         ELSE [fut |-> f, slot |-> f.mut_ref, res |-> "Pending"]
    ELSE [fut |-> f, slot |-> NULL, res |-> "Ready"]

\* A poll that takes the borrow but never stores it in the cell.
pollForgetsStore(f, cell) ==
    IF cell = NULL
    THEN IF f.mut_ref = None
         THEN [fut |-> f, slot |-> cell, res |-> "panic"]
         ELSE [fut |-> [f EXCEPT !.mut_ref = None], slot |-> cell,
               res |-> "Pending"]
    ELSE [fut |-> f, slot |-> NULL, res |-> "Ready"]

\* FrozenFuture::poll on suspension object f, with cell the content of the
\* State cell f.state points to.  Yields the object, the cell and the result
\* ("panic" is the failed expect()).
poll(f, cell) ==
    IF cell = NULL
    THEN IF f.mut_ref = None
         THEN [fut |-> f, slot |-> cell, res |-> "panic"]
         ELSE [fut |-> [f EXCEPT !.mut_ref = None], slot |-> f.mut_ref,
               res |-> "Pending"]
    ELSE [fut |-> f, slot |-> NULL, res |-> "Ready"]

\* A loop body that counts in twos.
CounterBodyTwice(v) == v + 2

\* x += 1 in the loop of test::produce_output
CounterBody(v) == v + 1

\* Every computation sets up its local first, none panics at once.
FirstStepNoPanic(prog) == "let x = 0"

\* What a computation does when it is first resumed.
FirstStep(prog) ==
    IF prog = "panicking_future" THEN "panic" ELSE "let x = 0"

\* Every computation goes on counting after its freeze, none panics.
AfterFreezeNoPanic(prog) == "x += 1"

\* What a computation does after its freeze(..).await has completed.
AfterFreeze(prog) ==
    IF prog = "panicking_future_after_once" THEN "panic" ELSE "x += 1"

\* ------------------------------------------------------------ the scope

\* An enter that never looks at the liveness flag.
PoisonedIgnored(live) == FALSE

\* enter, step 1: is the scope permanently inert?
Poisoned(live) == live = "Poisoned"

\* A driver that waits for a wake-up before it hands control back.
OnPendingWait == "wait"

\* The step driver, when the computation reports Pending: readiness is always
\* immediate, control goes straight back to enter, which runs the inspector.
OnPending == "inspect"

\* An enter that resumes the computation once more before it returns.
AfterInspectorResume == "resume"

\* enter, once the inspector has returned or panicked: the call is over.
AfterInspector == "idle"

\* The record of one finished enter call.
Call(i, seen, res, ret, live) ==
    [insp |-> i, seen |-> seen, res |-> res, ret |-> ret, after |-> live]

\* The ghost record of a poll of f that found cell and produced r.
Polled(s, f, cell, r) ==
    [scope |-> s, id |-> f.id, prior |-> f.results, res |-> r.res,
     before |-> cell, after |-> r.slot]

\* The suspension object after a poll that did not panic.
After(r) == [r.fut EXCEPT !.results = Append(@, r.res)]

\* Scope A has been built by BoxScope::new around one of the computations and
\* has not been entered yet; no scope B has been built.
Init ==
    /\ liveness = [s \in Scopes |-> IF s = "A" THEN "Alive" ELSE "Uninitialized"]
    /\ program \in {f \in [Scopes -> Programs] : f["B"] = "produce_output"}
    /\ slot = [s \in Scopes |-> StateDefault]
    /\ x = [s \in Scopes |-> 0]
    /\ cpc = [s \in Scopes |-> "start"]
    /\ fut = [s \in Scopes |-> NoFut]
    /\ nextId = 1
    /\ manual = [s \in Scopes |-> 0]
    /\ epc = [s \in Scopes |-> "idle"]
    /\ cur = [s \in Scopes |-> [kind |-> "read", val |-> 0]]
    /\ hist = [s \in Scopes |-> <<>>]
    /\ polled = NoPoll
    /\ entered = [s \in Scopes |-> 0]
    /\ handed = [s \in Scopes |-> <<>>]

\* The computation unwinds out of the resume: enter marks the scope Poisoned
\* and re-raises; no inspector runs.  Unwinding drops the computation's locals.
Fail(s) ==
    /\ liveness' = [liveness EXCEPT ![s] = "Poisoned"]
    /\ cpc' = [cpc EXCEPT ![s] = "panicked"]
    /\ fut' = [fut EXCEPT ![s] = NoFut]
    /\ epc' = [epc EXCEPT ![s] = "idle"]
    /\ hist' = [hist EXCEPT ![s] =
                  Append(@, Call(cur[s], NoVal, "computation failed", NoVal,
                                 "Poisoned"))]

\* enter, step 1 and the start of step 2: a Poisoned scope fails at once;
\* otherwise the driver resumes the computation.
EnterCall(s, i) ==
    /\ liveness[s] # "Uninitialized"
    /\ \A t \in Scopes : epc[t] = "idle"
    /\ Len(hist[s]) < MaxEnters
    /\ IF Poisoned(liveness[s])
       THEN /\ hist' = [hist EXCEPT ![s] =
                          Append(@, Call(i, NoVal, "poisoned", NoVal, "Poisoned"))]
            /\ UNCHANGED <<epc, cur>>
       ELSE /\ epc' = [epc EXCEPT ![s] = "resume"]
            /\ cur' = [cur EXCEPT ![s] = i]
            /\ UNCHANGED hist
    /\ entered' = [entered EXCEPT ![s] = @ + 1]
    /\ UNCHANGED <<liveness, program, slot, x, cpc, fut, nextId, manual, polled,
                   handed>>

\* The computation's first resume: it panics, or sets up its local.
CompStart(s) ==
    /\ epc[s] = "resume"
    /\ cpc[s] = "start"
    /\ IF FirstStep(program[s]) = "panic"
       THEN /\ Fail(s)
            /\ UNCHANGED x
       ELSE /\ x' = [x EXCEPT ![s] = 0]
            /\ cpc' = [cpc EXCEPT ![s] = "call freeze"]
            /\ UNCHANGED <<liveness, fut, epc, hist>>
    /\ UNCHANGED <<program, slot, nextId, manual, cur, polled, entered, handed>>

\* time_capsule.freeze(&mut x)
CompFreeze(s) ==
    /\ epc[s] = "resume"
    /\ cpc[s] = "call freeze"
    /\ fut' = [fut EXCEPT ![s] = freeze(s, Ptr(nextId, s), nextId)]
    /\ nextId' = nextId + 1
    /\ cpc' = [cpc EXCEPT ![s] = "await"]
    /\ UNCHANGED <<liveness, program, slot, x, manual, epc, cur, hist, polled,
                   entered, handed>>

\* .await polls the suspension object.  Pending suspends the computation and
\* the driver returns to enter; Ready drops the object and goes on.
CompAwait(s) ==
    /\ epc[s] = "resume"
    /\ cpc[s] = "await"
    /\ LET f == fut[s]
           r == poll(f, slot[f.state])
       IN  /\ polled' = Polled(s, f, slot[f.state], r)
           /\ slot' = [slot EXCEPT ![f.state] = r.slot]
           /\ CASE r.res = "Pending" ->
                     /\ fut' = [fut EXCEPT ![s] = After(r)]
                     /\ epc' = [epc EXCEPT ![s] = OnPending]
                     /\ UNCHANGED <<liveness, cpc, hist>>
                [] r.res = "Ready" ->
                     /\ fut' = [fut EXCEPT ![s] = NoFut]
                     /\ cpc' = [cpc EXCEPT ![s] = "after freeze"]
                     /\ UNCHANGED <<liveness, epc, hist>>
                [] OTHER -> Fail(s)
    /\ UNCHANGED <<program, x, nextId, manual, cur, entered, handed>>

\* The code after freeze(..).await: x += 1 and loop, or panic!().
CompBody(s) ==
    /\ epc[s] = "resume"
    /\ cpc[s] = "after freeze"
    /\ IF AfterFreeze(program[s]) = "panic"
       THEN /\ Fail(s)
            /\ UNCHANGED x
       ELSE /\ x' = [x EXCEPT ![s] = CounterBody(@)]
            /\ cpc' = [cpc EXCEPT ![s] = "call freeze"]
            /\ UNCHANGED <<liveness, fut, epc, hist>>
    /\ UNCHANGED <<program, slot, nextId, manual, cur, polled, entered, handed>>

\* A computation that polls its suspension object by hand, without awaiting
\* it: whatever poll reports, the computation keeps running.
ManualPoll(s) ==
    /\ program[s] = "hand_polled"
    /\ epc[s] = "resume"
    /\ cpc[s] = "await"
    /\ manual[s] < MaxManual
    /\ manual' = [manual EXCEPT ![s] = @ + 1]
    /\ LET f == fut[s]
           r == poll(f, slot[f.state])
       IN  /\ polled' = Polled(s, f, slot[f.state], r)
           /\ slot' = [slot EXCEPT ![f.state] = r.slot]
           /\ IF r.res = "panic"
              THEN Fail(s)
              ELSE /\ fut' = [fut EXCEPT ![s] = After(r)]
                   /\ UNCHANGED <<liveness, cpc, epc, hist>>
    /\ UNCHANGED <<program, x, nextId, cur, entered, handed>>

\* A computation that drops its suspension object before it has completed.
ManualDrop(s) ==
    /\ program[s] = "hand_polled"
    /\ epc[s] = "resume"
    /\ cpc[s] = "await"
    /\ manual[s] < MaxManual
    /\ fut' = [fut EXCEPT ![s] = NoFut]
    /\ manual' = [manual EXCEPT ![s] = @ + 1]
    /\ cpc' = [cpc EXCEPT ![s] = "call freeze"]
    /\ UNCHANGED <<liveness, program, slot, x, nextId, epc, cur, hist, polled,
                   entered, handed>>

\* enter, step 3: the inspector runs on the pointer found in the cell, and
\* enter returns its result or propagates its panic.  enter does not resume
\* the computation again before it returns: test::produce_output observes
\* 0, 1, 2, 103 on consecutive calls, and the first enter of
\* test::panicking_future_after_once returns although the computation panics
\* right after its freeze.  The cell is cleared by the next enter's resume.
Inspect(s) ==
    /\ epc[s] = "inspect"
    /\ LET p == slot[s]
           i == cur[s]
           v == x[p.data]
       IN  CASE i.kind = "read" ->
                  /\ hist' = [hist EXCEPT ![s] =
                                Append(@, Call(i, v, "returned", v, liveness[s]))]
                  /\ UNCHANGED x
             [] i.kind = "write" ->
                  /\ x' = [x EXCEPT ![p.data] = i.val]
                  /\ hist' = [hist EXCEPT ![s] =
                                Append(@, Call(i, v, "returned", i.val, liveness[s]))]
             [] OTHER ->
                  /\ hist' = [hist EXCEPT ![s] =
                                Append(@, Call(i, v, "inspector failed", NoVal,
                                               liveness[s]))]
                  /\ UNCHANGED x
    /\ handed' = [handed EXCEPT ![s] =
                    Append(@, [ptr |-> slot[s], call |-> entered[s]])]
    /\ epc' = [epc EXCEPT ![s] = AfterInspector]
    /\ UNCHANGED <<liveness, program, slot, cpc, fut, nextId, manual, cur, polled,
                   entered>>

Next ==
    \/ \E s \in Scopes, i \in Inspectors : EnterCall(s, i)
    \/ \E s \in Scopes : CompStart(s)
    \/ \E s \in Scopes : CompFreeze(s)
    \/ \E s \in Scopes : CompAwait(s)
    \/ \E s \in Scopes : CompBody(s)
    \/ \E s \in Scopes : ManualPoll(s)
    \/ \E s \in Scopes : ManualDrop(s)
    \/ \E s \in Scopes : Inspect(s)

Spec == Init /\ [][Next]_vars

\* ------------------------------------------------------------ claims

\* Every finished enter call of scope s so far had a reading inspector.
OnlyReads(s) == \A k \in 1..Len(hist[s]) : hist[s][k].insp.kind = "read"

\* The enter call failed for a reason of the computation or of the scope.
ScopeFailure(c) ==
    /\ c.res \in {"computation failed", "poisoned"}
    /\ c.seen = NoVal
    /\ c.ret = NoVal

\* C1 Sequential progress: on the counter computation of produce_output, when
\* no inspector fails or mutates, the k-th enter call returns normally and
\* hands exactly k-1 to its inspector.
C1_SequentialProgress ==
    \A s \in Scopes :
        (program[s] = "produce_output" /\ OnlyReads(s))
        => \A k \in 1..Len(hist[s]) :
              /\ hist[s][k].res = "returned"
              /\ hist[s][k].seen = k - 1
              /\ hist[s][k].ret = k - 1

\* Three reading enter calls have finished on the counter computation.
C1_Witness ==
    /\ program["A"] = "produce_output"
    /\ OnlyReads("A")
    /\ Len(hist["A"]) >= 3

\* C2 Mutation visibility: on the counter computation, when the inspector of
\* an enter call writes v' through the frozen borrow, the next enter call's
\* inspector observes v' + 1.
C2_MutationVisible ==
    \A s \in Scopes :
        program[s] = "produce_output"
        => \A k \in 1..(Len(hist[s]) - 1) :
              (hist[s][k].insp.kind = "write" /\ hist[s][k].res = "returned")
              => /\ hist[s][k + 1].seen = hist[s][k].insp.val + 1
                 /\ hist[s][k + 1].res # "computation failed"

\* An inspector wrote a value other than the one it observed, and a later
\* enter call has finished.
C2_Witness ==
    /\ program["A"] = "produce_output"
    /\ \E k \in 1..(Len(hist["A"]) - 1) :
          /\ hist["A"][k].insp.kind = "write"
          /\ hist["A"][k].insp.val # hist["A"][k].seen
          /\ hist["A"][k + 1].seen # NoVal

\* C3 Computation failure poisons permanently: when the computation panics on
\* its first resume, the first enter call fails with the computation's
\* failure, and every enter call fails, none invoking its inspector, each
\* leaving the scope Poisoned.
C3_FirstResumeFailurePoisons ==
    \A s \in Scopes :
        program[s] = "panicking_future"
        => /\ \A k \in 1..Len(hist[s]) :
                 /\ ScopeFailure(hist[s][k])
                 /\ hist[s][k].after = "Poisoned"
                 /\ (hist[s][k].res = "computation failed") <=> (k = 1)
           /\ (hist[s] # <<>> /\ epc[s] = "idle") => liveness[s] = "Poisoned"
           /\ slot[s] = NULL

\* Two enter calls have failed on the computation that panics at once.
C3_Witness ==
    /\ program["A"] = "panicking_future"
    /\ Len(hist["A"]) >= 2

\* C4 Failure after one success poisons permanently: on the computation that
\* freezes once and panics when resumed, the first enter call runs its
\* inspector on x (= 0) and returns normally unless the inspector itself
\* fails, and every enter call after the first fails without an inspector.
C4_FailureAfterOneSuccess ==
    \A s \in Scopes :
        program[s] = "panicking_future_after_once"
        => \A k \in 1..Len(hist[s]) :
              IF k = 1
              THEN /\ hist[s][k].seen = 0
                   /\ hist[s][k].after = "Alive"
                   /\ hist[s][k].insp.kind # "panic" => hist[s][k].res = "returned"
              ELSE /\ ScopeFailure(hist[s][k])
                   /\ hist[s][k].after = "Poisoned"

\* The first enter call returned and two more have failed.
C4_Witness ==
    /\ program["A"] = "panicking_future_after_once"
    /\ Len(hist["A"]) >= 3
    /\ hist["A"][1].res = "returned"
    /\ hist["A"][3].res = "poisoned"

\* C5 Inspector failure skips one generation without poisoning: on the
\* counter computation, when enter #1 returns having observed 0 and the
\* inspector of enter #2 fails, enter #2 propagates that failure with the
\* scope still Alive, and enter #3 observes 2; as long as no inspector
\* writes, every later enter call k observes k - 1, never 1 again.
C5_InspectorFailureSkips ==
    \A s \in Scopes :
        (/\ program[s] = "produce_output"
         /\ Len(hist[s]) >= 2
         /\ hist[s][1].insp.kind = "read"
         /\ hist[s][2].insp.kind = "panic")
        => /\ hist[s][1].seen = 0
           /\ hist[s][1].res = "returned"
           /\ hist[s][2].seen = 1
           /\ hist[s][2].res = "inspector failed"
           /\ hist[s][2].after = "Alive"
           /\ \A k \in 3..Len(hist[s]) :
                 /\ hist[s][k].after = "Alive"
                 /\ hist[s][k].insp.kind # "panic" => hist[s][k].res = "returned"
                 /\ (\A j \in 3..(k - 1) : hist[s][j].insp.kind # "write")
                    => hist[s][k].seen = k - 1

\* Enter #2's inspector failed and enter #3 has returned.
C5_Witness ==
    /\ program["A"] = "produce_output"
    /\ Len(hist["A"]) >= 3
    /\ hist["A"][1].insp.kind = "read"
    /\ hist["A"][2].res = "inspector failed"
    /\ hist["A"][3].res = "returned"

\* C6 Poisoned is absorbing and use-after-poison has no effect: a step taken
\* while scope s is Poisoned leaves it Poisoned, does not resume the
\* computation, leaves the computation's state and the cell unchanged, and
\* can only record an enter call that failed at once without an inspector.
C6_PoisonedAbsorbing ==
    [][\A s \in Scopes :
          liveness[s] = "Poisoned"
          => /\ liveness'[s] = "Poisoned"
             /\ epc'[s] = "idle"
             /\ slot'[s] = slot[s]
             /\ x'[s] = x[s]
             /\ cpc'[s] = cpc[s]
             /\ fut'[s] = fut[s]
             /\ \/ hist'[s] = hist[s]
                \/ /\ Len(hist'[s]) = Len(hist[s]) + 1
                   /\ SubSeq(hist'[s], 1, Len(hist[s])) = hist[s]
                   /\ ScopeFailure(hist'[s][Len(hist'[s])])
                   /\ hist'[s][Len(hist'[s])].res = "poisoned"]_vars

\* Two enter calls in a row have been made on a Poisoned scope.
C6_Witness ==
    /\ liveness["A"] = "Poisoned"
    /\ Len(hist["A"]) >= 3
    /\ hist["A"][2].res = "poisoned"
    /\ hist["A"][3].res = "poisoned"

\* C7 At most one outstanding borrow: a poll of a suspension object that
\* finds in the cell the pointer of another suspension object fails loudly
\* and leaves that pointer in the cell.
C7_SecondObjectFailsLoudly ==
    (polled.before # NULL /\ polled.before.owner # polled.id)
    => /\ polled.res = "panic"
       /\ polled.after = polled.before

\* C8 Third inspection fails loudly: a poll of a suspension object whose
\* first poll reported Pending and whose second reported Ready panics; it
\* reports neither Ready nor Pending and stores nothing in the cell.
C8_ThirdInspectionPanics ==
    polled.prior = <<"Pending", "Ready">>
    => /\ polled.res = "panic"
       /\ polled.after = polled.before
       /\ polled.after = NULL

\* A suspension object has been polled a third time.
C8_Witness ==
    /\ polled.prior = <<"Pending", "Ready">>
    /\ liveness[polled.scope] = "Poisoned"

\* The inspector of call c returned a result.
InspectorReturned(c) == c.seen # NoVal /\ c.insp.kind # "panic"

\* C9 (as stated) Post-success resume failure: when the computation fails on
\* being resumed past a freeze whose borrow an inspector has returned from,
\* the enter call of that inspector propagates the failure instead of
\* returning the inspector's result.
C9_FailureReplacesResult ==
    \A s \in Scopes :
        \A k \in 2..Len(hist[s]) :
            (hist[s][k].res = "computation failed" /\ InspectorReturned(hist[s][k - 1]))
            => hist[s][k - 1].res # "returned"

\* C9 (amended) The computation is resumed past a freeze by the next enter
\* call only: the enter call whose inspector returned R returns R with the
\* scope Alive, and the failure of the computation past that freeze is
\* propagated by the following enter call, which invokes no inspector and
\* leaves the scope Poisoned.  On panicking_future_after_once, enter #1
\* returns and enter #2 propagates the computation's failure.
C9_FailureSurfacesInNextEnter ==
    \A s \in Scopes :
        /\ \A k \in 2..Len(hist[s]) :
              (hist[s][k].res = "computation failed"
               /\ InspectorReturned(hist[s][k - 1]))
              => /\ hist[s][k - 1].res = "returned"
                 /\ hist[s][k - 1].ret # NoVal
                 /\ hist[s][k - 1].after = "Alive"
                 /\ ScopeFailure(hist[s][k])
                 /\ hist[s][k].after = "Poisoned"
        /\ (/\ program[s] = "panicking_future_after_once"
            /\ Len(hist[s]) >= 2
            /\ hist[s][1].insp.kind # "panic")
           => /\ hist[s][1].res = "returned"
              /\ hist[s][2].res = "computation failed"

\* An inspector returned and the next enter call met the computation's panic.
C9_Witness ==
    /\ Len(hist["A"]) >= 2
    /\ hist["A"][1].res = "returned"
    /\ hist["A"][2].res = "computation failed"
    /\ liveness["A"] = "Poisoned"

\* ---------------------------------------------------------- scheduling

\* One step of the call in progress: the computation between enter and its
\* next Pending or panic, or the inspector.
Step(s) ==
    \/ CompStart(s)
    \/ CompFreeze(s)
    \/ CompAwait(s)
    \/ CompBody(s)
    \/ ManualPoll(s)
    \/ ManualDrop(s)
    \/ Inspect(s)

\* enter is a synchronous call: once made, the thread keeps executing it.  The
\* caller is free never to call enter again.
LiveSpec == Spec /\ \A s \in Scopes : WF_vars(Step(s))

\* C11 enter always completes: every enter call that has started resuming the
\* computation, or has reached its inspector, eventually is over (it
\* returned the inspector's result or propagated a failure); it never stays
\* waiting for a readiness signal.
C11_EnterCompletes ==
    \A s \in Scopes : (epc[s] # "idle") ~> (epc[s] = "idle")

\* Three enter calls have come to their end: one returned, one propagated
\* its inspector's panic, and the scope is between calls.
C11_Witness ==
    /\ epc["A"] = "idle"
    /\ entered["A"] >= 3
    /\ Len(hist["A"]) = entered["A"]
    /\ \E k \in 1..Len(hist["A"]) : hist["A"][k].res = "returned"
    /\ \E k \in 1..Len(hist["A"]) : hist["A"][k].res = "inspector failed"

\* The suspension objects whose pointers have been given to inspectors of s.
HandedOwners(s) == {handed[s][k].ptr.owner : k \in 1..Len(handed[s])}

\* C12 Slot alternation: every cell starts Empty; a step that changes a cell
\* takes it from Empty to Holding or from Holding to Empty, never from one
\* pointer to another; and a cell changes only while an enter call on its
\* scope is resuming the computation.
C12_SlotAlternation ==
    /\ \A s \in Scopes : slot[s] = NULL
    /\ [][\A s \in Scopes :
             slot'[s] # slot[s]
             => /\ (slot[s] = NULL) # (slot'[s] = NULL)
                /\ epc[s] = "resume"]_vars

\* The cell has been Holding (its pointer went to an inspector), Empty
\* again, and now holds the pointer of a later suspension object.
C12_Witness ==
    /\ slot["A"] # NULL
    /\ HandedOwners("A") # {}
    /\ slot["A"].owner \notin HandedOwners("A")
    /\ polled.before = NULL
    /\ polled.after = slot["A"]

\* How many times suspension object f has reported Pending.
Deposits(f) == Cardinality({k \in 1..Len(f.results) : f.results[k] = "Pending"})

\* C13 Inspector access window: enter reaches its inspector only with the
\* cell Holding; inspectors are invoked at most once per enter call; the
\* pointer an inspector gets is the one in the cell, which stays there during
\* the invocation and belongs to the live suspension object that deposited
\* it once and has not taken it back; no suspension object's pointer goes to
\* two inspector invocations.
C13_InspectorWindow ==
    /\ [](\A s \in Scopes :
            /\ epc[s] = "inspect" => (slot[s] # NULL /\ slot[s].owner = fut[s].id)
            /\ Len(handed[s]) <= entered[s]
            /\ \A j, k \in 1..Len(handed[s]) :
                  j < k => /\ handed[s][j].call < handed[s][k].call
                           /\ handed[s][j].ptr.owner # handed[s][k].ptr.owner)
    /\ [][\A s \in Scopes :
             handed'[s] # handed[s]
             => /\ slot[s] # NULL
                /\ handed'[s] = Append(handed[s],
                                       [ptr |-> slot[s], call |-> entered[s]])
                /\ slot'[s] = slot[s]
                /\ fut[s].id = slot[s].owner
                /\ fut[s].mut_ref = None
                /\ Deposits(fut[s]) = 1]_vars

\* Two inspectors in a row have been given the pointers of two different
\* suspension objects.
C13_Witness ==
    /\ Len(handed["A"]) >= 2
    /\ handed["A"][1].call = 1
    /\ handed["A"][2].call = 2
    /\ slot["A"] = handed["A"][2].ptr

\* The last enter call on s is over and its inspector was invoked: enter
\* returned the inspector's result or propagated the inspector's panic.
InspectorCallOver(s) ==
    /\ epc[s] = "idle"
    /\ hist[s] # <<>>
    /\ hist[s][Len(hist[s])].res \in {"returned", "inspector failed"}

\* C14 (as stated) Slot is Empty when enter finishes on an Alive scope: when
\* an enter call has returned the inspector's result or propagated the
\* inspector's failure, the cell is Empty and the scope is Alive.
C14_SlotEmptyAtReturn ==
    \A s \in Scopes :
        InspectorCallOver(s) => (slot[s] = NULL /\ liveness[s] = "Alive")

\* C14 (amended) When an enter call has returned the inspector's result or
\* propagated the inspector's failure, the scope is Alive and the cell is
\* still Holding the pointer that inspector was given, the computation being
\* suspended in that freeze; the cell has been Holding since enter reached
\* the inspector.  (The next enter call's resume empties it.)
C14_SlotHoldingAtReturn ==
    \A s \in Scopes :
        /\ epc[s] = "inspect" => slot[s] # NULL
        /\ InspectorCallOver(s)
           => /\ liveness[s] = "Alive"
              /\ slot[s] # NULL
              /\ slot[s] = handed[s][Len(handed[s])].ptr
              /\ handed[s][Len(handed[s])].call = Len(hist[s])
              /\ fut[s].id = slot[s].owner
              /\ cpc[s] = "await"

\* An enter call has returned its inspector's result, and another one has
\* propagated its inspector's panic.
C14_Witness ==
    /\ InspectorCallOver("A")
    /\ Len(hist["A"]) >= 2
    /\ hist["A"][Len(hist["A"])].res = "inspector failed"
    /\ hist["A"][Len(hist["A"]) - 1].res = "returned"

\* C15 Two-inspection protocol: a first poll of a suspension object that
\* finds the cell Empty leaves the cell Holding that object's borrow and
\* reports Pending; the next poll of the same object, finding the cell
\* Holding, leaves it Empty and reports Ready.  When the poll is that of
\* .await, Pending suspends the computation at the freeze and hands control
\* to the inspector, and Ready lets the computation go on with the statement
\* after freeze(..).await.
C15_TwoInspections ==
    /\ []( /\ (polled # NoPoll /\ polled.prior = <<>> /\ polled.before = NULL)
              => /\ polled.res = "Pending"
                 /\ polled.after = Ptr(polled.id, polled.scope)
           /\ (polled.prior = <<"Pending">> /\ polled.before # NULL)
              => /\ polled.res = "Ready"
                 /\ polled.after = NULL
                 /\ polled.before.owner = polled.id )
    /\ [][\A s \in Scopes :
             (polled' # polled /\ polled'.scope = s /\ manual'[s] = manual[s])
             => /\ slot'[s] = polled'.after
                /\ polled'.res = "Pending"
                   => /\ epc'[s] = "inspect"
                      /\ cpc'[s] = "await"
                      /\ fut'[s].id = polled'.id
                /\ polled'.res = "Ready"
                   => /\ epc'[s] = "resume"
                      /\ cpc'[s] = "after freeze"
                      /\ x'[s] = x[s]]_vars

\* A suspension object has been polled twice, Pending then Ready, and the
\* computation stands right after its freeze(..).await.
C15_Witness ==
    /\ polled.scope = "A"
    /\ polled.prior = <<"Pending">>
    /\ polled.res = "Ready"
    /\ polled.before = Ptr(polled.id, "A")
    /\ cpc["A"] = "after freeze"
    /\ slot["A"] = NULL

\* C16 Timing of the second inspection: the poll that finds a suspension
\* object's own pointer in the cell and empties it, for an object whose
\* borrow was given to an inspector, happens while the enter call right
\* after that inspector's enter call resumes the computation, never during
\* the enter call that first polled the object; and a computation that only
\* awaits its suspension objects completes none whose borrow was not given
\* to an inspector.
C16_SecondInspectionInNextEnter ==
    [][\A s \in Scopes :
          (polled' # polled /\ polled'.scope = s /\ polled'.res = "Ready")
          => /\ (polled'.before.owner = polled'.id
                 /\ polled'.id \in HandedOwners(s))
                => /\ handed[s][Len(handed[s])].ptr.owner = polled'.id
                   /\ entered[s] = handed[s][Len(handed[s])].call + 1
                   /\ Len(hist[s]) = handed[s][Len(handed[s])].call
                   /\ epc[s] = "resume"
             /\ program[s] # "hand_polled"
                => /\ polled'.before.owner = polled'.id
                   /\ polled'.id \in HandedOwners(s)]_vars

\* The second enter call has completed the suspension object whose borrow
\* the first enter call's inspector was given.
C16_Witness ==
    /\ polled.scope = "A"
    /\ polled.res = "Ready"
    /\ polled.before.owner = polled.id
    /\ handed["A"] # <<>>
    /\ handed["A"][1].ptr.owner = polled.id
    /\ handed["A"][1].call = 1
    /\ entered["A"] = 2

\* ---------------------------------------------------------- two scopes

\* Two scopes have been built by BoxScope::new, each around a computation of
\* its own with a capsule of its own; neither has been entered yet.
InitTwo ==
    /\ liveness = [s \in Scopes |-> "Alive"]
    /\ program \in [Scopes -> Programs]
    /\ slot = [s \in Scopes |-> StateDefault]
    /\ x = [s \in Scopes |-> 0]
    /\ cpc = [s \in Scopes |-> "start"]
    /\ fut = [s \in Scopes |-> NoFut]
    /\ nextId = 1
    /\ manual = [s \in Scopes |-> 0]
    /\ epc = [s \in Scopes |-> "idle"]
    /\ cur = [s \in Scopes |-> [kind |-> "read", val |-> 0]]
    /\ hist = [s \in Scopes |-> <<>>]
    /\ polled = NoPoll
    /\ entered = [s \in Scopes |-> 0]
    /\ handed = [s \in Scopes |-> <<>>]

\* The caller enters either scope, MaxEntersTwo times in all.
EnterEither(s, i) ==
    /\ entered["A"] + entered["B"] < MaxEntersTwo
    /\ EnterCall(s, i)

NextTwo ==
    \/ \E s \in Scopes, i \in Inspectors : EnterEither(s, i)
    \/ \E s \in Scopes : Step(s)

SpecTwo == InitTwo /\ [][NextTwo]_vars

\* A step belongs to an enter call on scope s.
StepOf(s) == epc[s] # "idle" \/ epc'[s] # "idle" \/ entered'[s] # entered[s]

\* C17 Scopes are independent: a step of an enter call on one scope (whether
\* the call returns, fails in its inspector, or poisons the scope) leaves the
\* other scope's cell, computation state and liveness as they were; and a
\* suspension object made from a scope's capsule points at that scope's cell,
\* the only cell its polls read and write.
C17_ScopesIndependent ==
    /\ [](\A s \in Scopes :
            /\ fut[s] # NoFut => fut[s].state = s
            /\ slot[s] # NULL => slot[s].data = s)
    /\ [][\A s, t \in Scopes :
             (s # t /\ StepOf(s))
             => /\ slot'[t] = slot[t]
                /\ liveness'[t] = liveness[t]
                /\ x'[t] = x[t]
                /\ cpc'[t] = cpc[t]
                /\ fut'[t] = fut[t]
                /\ manual'[t] = manual[t]
                /\ hist'[t] = hist[t]
                /\ handed'[t] = handed[t]]_vars

\* Scope A has been poisoned by an enter call while scope B, entered too, is
\* Alive with its borrow frozen in its own cell.
C17_Witness ==
    /\ liveness["A"] = "Poisoned"
    /\ Len(hist["A"]) >= 1
    /\ liveness["B"] = "Alive"
    /\ Len(hist["B"]) >= 1
    /\ slot["B"] # NULL
    /\ slot["B"].data = "B"
    /\ fut["B"].state = "B"

\* ------------------------------------------------- discarded suspensions

\* C18 Completion needs an own deposit: a poll reports Ready only for a
\* suspension object whose previous poll reported Pending, whose borrow is
\* the one found in the cell, and which no longer holds that borrow itself.
C18_ReadyOnlyAfterOwnDeposit ==
    /\ polled.res = "Ready"
       => /\ polled.prior # <<>>
          /\ polled.prior[Len(polled.prior)] = "Pending"
          /\ polled.before = Ptr(polled.id, polled.scope)
    /\ \A s \in Scopes :
          (fut[s] # NoFut /\ fut[s].results # <<>>
             /\ fut[s].results[Len(fut[s].results)] = "Ready")
          => fut[s].mut_ref = None

\* C19 A Holding cell belongs to a live suspension: whenever a cell holds a
\* pointer, the suspension object that deposited it still exists, has been
\* polled exactly once and reported Pending; a discarded suspension object
\* leaves no pointer behind.
C19_HoldingBelongsToLive ==
    \A s \in Scopes :
        slot[s] # NULL
        => /\ fut[s] # NoFut
           /\ fut[s].id = slot[s].owner
           /\ fut[s].results = <<"Pending">>

====
